---- MODULE Spec2Model ----
(***************************************************************************)
(* intake-axds: the AXDSSensorSource data source (src/intake_axds/axds.py) *)
(* and the construction of AXDSCatalog (src/intake_axds/axds_cat.py),      *)
(* modelled as state machines over one set of variables.                   *)
(*                                                                         *)
(* Python values are represented as follows.                               *)
(*   None            the record None                                       *)
(*   optional str    the string "None" when absent                         *)
(*   qartod          a tagged record: [type |-> "bool", b |-> ..],         *)
(*                   [type |-> "int", i |-> ..], [type |-> "list", l |-> ..]*)
(*   dict            a sequence in insertion order                         *)
(*   pd.DataFrame    [kind |-> "frame", index_names, columns, index, data] *)
(*                   index: one tuple per row, data: one tuple per row     *)
(*   pd.NA / NaN     the cell value NA                                     *)
(*   an exception    a result record with ok = FALSE and the error's name  *)
(***************************************************************************)
EXTENDS Integers, Sequences, FiniteSets, TLC

VARIABLES
    alive,          \* "no": not constructed, "yes": constructed, "failed": __init__ raised
    internal_id,    \* self.internal_id
    dataset_id,     \* self.dataset_id
    qartod,         \* self.qartod
    use_units,      \* self.use_units
    binned,         \* self.binned
    metadata,       \* self.metadata: version and variables_details once loaded
    _dataframe,     \* self._dataframe
    _schema,        \* self._schema (intake.source.base.DataSource)
    op,             \* the last call made on the object
    args,           \* the arguments of that call
    ret,            \* what that call returned or raised
    log,            \* the network requests and debugger traps of that call, in order
    loads,          \* the number of _load calls that call made
    requested,      \* history: a schema request or a read was made since construction
    feed            \* the feed handed to the parser (parser specification only)

vars == <<alive, internal_id, dataset_id, qartod, use_units, binned, metadata,
          _dataframe, _schema, op, args, ret, log, loads, requested, feed>>

----------------------------------------------------------------------------
(* Bounds of the model *)

MaxRows == 2        \* rows of a generated feed
MaxAccept == 2      \* length of a generated accepted-flag list
MaxVars == 3        \* variables of a generated station (filter specification)
MaxTables == 3      \* tables of a generated merge (merge specification)
MaxPgid == 3        \* parameter-group ids of a generated station

----------------------------------------------------------------------------
(* Python values *)

None == [kind |-> "None"]

NA == -1

\* QARTOD aggregate flag codes (docstring of __init__): Pass, Suspect, Fail
FlagCodes == {1, 3, 4}

Range(s) == {s[i] : i \in 1..Len(s)}

\* the sequence given as a function on 1..n, as a tuple of its elements
Tuple(f) == f \o <<>>

RECURSIVE Flatten(_)
Flatten(ss) == IF ss = <<>> THEN <<>> ELSE Head(ss) \o Flatten(Tail(ss))

\* the sequences over S of length 1..n that repeat no element
Arrangements(S, n) ==
    {s \in UNION {[1..k -> S] : k \in 1..n} :
        \A i, j \in 1..Len(s) : i /= j => s[i] /= s[j]}

Raised(e) == [ok |-> FALSE, err |-> e]
Returned(v) == [ok |-> TRUE, value |-> v]

----------------------------------------------------------------------------
(* utils.make_label *)

make_label(label, units, use_units_) ==
    IF use_units_ /\ units /= "" /\ units /= "None"
    THEN label \o " [" \o units \o "]"
    ELSE label

----------------------------------------------------------------------------
(* _load_to_dataframe: the body of the loop over the feeds *)

\* [var for var in variables_details if variables_details[var]["deviceId"] == deviceId]
vars_with_device(variables_details, deviceId) ==
    SelectSeq(variables_details, LAMBDA v : v.deviceId = deviceId)

\* isinstance(qartod, (str, list)) or qartod
qartod_on(q) ==
    \/ q.type = "list"
    \/ q.type = "bool" /\ q.b
    \/ q.type = "int" /\ q.i /= 0

\* isinstance(qartod, (str, list))
qartod_filters(q) == q.type = "list"

\* an index descriptor with its "column_name"
index_col(desc, use_units_) ==
    [index |-> desc.index, column_name |-> make_label(desc.label, desc.units, use_units_)]

\* indices: time, and z when the feed has one
indices_of(md, use_units_) ==
    IF md.z /= None
    THEN <<index_col(md.time, use_units_), index_col(md.z, use_units_)>>
    ELSE <<index_col(md.time, use_units_)>>

\* a value descriptor with its "label" and "column_name"; label is element [0]
\* of the matching variable names
data_col(desc, label, use_units_) ==
    [index |-> desc.index, deviceId |-> desc.deviceId, label |-> label,
     column_name |-> make_label(label, desc.units, use_units_)]

\* data_cols, in the order of the feed's descriptors
label_data_cols(descs, variables_details, use_units_) ==
    Tuple([k \in 1..Len(descs) |->
        data_col(descs[k], vars_with_device(variables_details, descs[k].deviceId)[1].name,
                 use_units_)])

\* a flag descriptor with its "label", "column_name" and "data_name"; name is
\* element [0] of the column names of the data columns of the same device
qa_col(desc, label, name) ==
    [index |-> desc.index, deviceId |-> desc.deviceId,
     label |-> label \o "_qc_agg", column_name |-> label \o "_qc_agg", data_name |-> name]

\* qa_cols, in the order of the feed's descriptors
label_qa_cols(descs, data_cols, variables_details) ==
    Tuple([k \in 1..Len(descs) |->
        qa_col(descs[k], vars_with_device(variables_details, descs[k].deviceId)[1].name,
               SelectSeq(data_cols, LAMBDA d : d.deviceId = descs[k].deviceId)[1].column_name)])

\* some descriptor's device is the device of no variable: [...][0] raises
unmatched(descs, variables_details) ==
    \E k \in 1..Len(descs) : vars_with_device(variables_details, descs[k].deviceId) = <<>>

\* some flag descriptor's device is the device of no data column: [...][0] raises
orphaned(qc_descs, val_descs) ==
    \E k \in 1..Len(qc_descs) :
        \A j \in 1..Len(val_descs) : val_descs[j].deviceId /= qc_descs[k].deviceId

col_pos(df, name) == CHOOSE c \in 1..Len(df.columns) : df.columns[c] = name

\* df.loc[df[qa_name] != qa, data_name] = pd.NA
null_where_not(df, qa_name, qa, data_name) ==
    [df EXCEPT !.data =
        Tuple([r \in 1..Len(df.data) |->
            Tuple([c \in 1..Len(df.columns) |->
                IF df.columns[c] = data_name /\ df.data[r][col_pos(df, qa_name)] /= qa
                THEN NA
                ELSE df.data[r][c]])])]

\* for qa in qartod: df.loc[df[qa_name] != qa, data_name] = pd.NA
RECURSIVE null_for_each_flag(_, _, _, _)
null_for_each_flag(df, qa_name, accepted, data_name) ==
    IF accepted = <<>> THEN df
    ELSE null_for_each_flag(null_where_not(df, qa_name, Head(accepted), data_name),
                            qa_name, Tail(accepted), data_name)

\* for ind in qa_cols: ... for qa in qartod: ...
RECURSIVE null_for_each_qa_col(_, _, _)
null_for_each_qa_col(df, qa_cols, accepted) ==
    IF qa_cols = <<>> THEN df
    ELSE null_for_each_qa_col(
             null_for_each_flag(df, Head(qa_cols).column_name, accepted, Head(qa_cols).data_name),
             Tail(qa_cols), accepted)

\* the positions of the columns of df not named name
columns_but(df, name) ==
    SelectSeq(Tuple([c \in 1..Len(df.columns) |-> c]), LAMBDA c : df.columns[c] /= name)

keep_columns(df, keep) ==
    [df EXCEPT !.columns = Tuple([k \in 1..Len(keep) |-> df.columns[keep[k]]]),
               !.data = Tuple([r \in 1..Len(df.data) |->
                            Tuple([k \in 1..Len(keep) |-> df.data[r][keep[k]]])])]

\* df.drop(labels=name, axis=1, inplace=True)
drop_column(df, name) == keep_columns(df, columns_but(df, name))

\* pd.DataFrame(feed["data"])[list(indices) + list(columns)]; df.columns = ...;
\* df.set_index(ind_names)   (the feed's positions count from 0)
select_and_index(rows, indices, columns) ==
    [kind |-> "frame",
     index_names |-> Tuple([k \in 1..Len(indices) |-> indices[k].column_name]),
     columns |-> Tuple([k \in 1..Len(columns) |-> columns[k].column_name]),
     index |-> Tuple([r \in 1..Len(rows) |->
                  Tuple([k \in 1..Len(indices) |-> rows[r][indices[k].index + 1]])]),
     data |-> Tuple([r \in 1..Len(rows) |->
                 Tuple([k \in 1..Len(columns) |-> rows[r][columns[k].index + 1]])])]

\* a kept position that some row does not have: df[icolumns_to_keep] raises
bad_position(rows, cols) ==
    \E r \in 1..Len(rows) : \E k \in 1..Len(cols) : cols[k].index + 1 > Len(rows[r])

\* "nan data for which QARTOD flags shouldn't be included", then "drop qartod
\* columns": qa_name is the name bound by the last iteration of the loop over
\* qa_cols; without a qa column it is unbound, or names a column of an earlier
\* feed, and the drop raises
filter_and_drop(df, qa_cols, accepted) ==
    IF qa_cols = <<>> THEN Raised("KeyError")
    ELSE Returned(drop_column(null_for_each_qa_col(df, qa_cols, accepted),
                              qa_cols[Len(qa_cols)].column_name))

\* lines 221-246: the table of the feed from its indices and columns
feed_table(rows, qartod_, indices, columns, qa_cols) ==
    IF bad_position(rows, indices \o columns) THEN Raised("KeyError")
    ELSE IF ~qartod_filters(qartod_) THEN Returned(select_and_index(rows, indices, columns))
    ELSE filter_and_drop(select_and_index(rows, indices, columns), qa_cols, qartod_.l)

\* lines 202-219: qa_cols are added to columns when qartod is on
feed_columns(fd, variables_details, qartod_, use_units_, val_descs, data_cols, qa_cols) ==
    feed_table(fd.data, qartod_, indices_of(fd.metadata, use_units_),
               data_cols \o qa_cols, qa_cols)

\* lines 190-219
feed_labelled(fd, variables_details, qartod_, use_units_, val_descs, data_cols) ==
    IF qartod_on(qartod_)
       /\ (unmatched(fd.metadata.qcAgg, variables_details)
           \/ orphaned(fd.metadata.qcAgg, val_descs))
    THEN Raised("IndexError")
    ELSE feed_columns(fd, variables_details, qartod_, use_units_, val_descs, data_cols,
                      IF qartod_on(qartod_)
                      THEN label_qa_cols(fd.metadata.qcAgg, data_cols, variables_details)
                      ELSE <<>>)

\* lines 184-200
feed_values(fd, variables_details, qartod_, use_units_, val_descs) ==
    IF unmatched(val_descs, variables_details) THEN Raised("IndexError")
    ELSE feed_labelled(fd, variables_details, qartod_, use_units_, val_descs,
                       label_data_cols(val_descs, variables_details, use_units_))

\* One iteration of "for feed in data_raw['data']['groupedFeeds']": the table
\* appended to dfs, or the exception raised.
feed_to_df(fd, variables_details, qartod_, use_units_, binned_) ==
    IF fd.metadata.lon /= None \/ fd.metadata.lat /= None THEN Raised("ValueError")
    ELSE feed_values(fd, variables_details, qartod_, use_units_,
                     IF binned_ THEN fd.metadata.avgVals ELSE fd.metadata.values)

----------------------------------------------------------------------------
(* DataFrame.join(other, how="outer", sort=True) and the fold over dfs *)

\* tuples of one length, compared as pandas sorts index keys
RECURSIVE key_less(_, _)
key_less(a, b) ==
    IF a = <<>> THEN FALSE
    ELSE IF Head(a) /= Head(b) THEN Head(a) < Head(b)
    ELSE key_less(Tail(a), Tail(b))

least_key(K) == CHOOSE x \in K : \A y \in K \ {x} : key_less(x, y)

RECURSIVE sorted_from(_, _)
sorted_from(m, K) == IF K = {m} THEN <<m>> ELSE <<m>> \o sorted_from(least_key(K \ {m}), K \ {m})

sorted_keys(K) == IF K = {} THEN <<>> ELSE sorted_from(least_key(K), K)

rows_at(df, key) ==
    SelectSeq(Tuple([r \in 1..Len(df.index) |-> r]), LAMBDA r : df.index[r] = key)

\* the cells one side contributes for the rows rs: those rows, or one row of NaN
cells_of(df, rs) ==
    IF rs = <<>> THEN <<Tuple([c \in 1..Len(df.columns) |-> NA])>>
    ELSE Tuple([k \in 1..Len(rs) |-> df.data[rs[k]]])

\* the joined rows of a key: each of the left rows with each of the right ones
rows_of_key(key, L, R) ==
    Tuple([n \in 1..(Len(L) * Len(R)) |->
        [key |-> key, cells |-> L[((n - 1) \div Len(R)) + 1] \o R[((n - 1) % Len(R)) + 1]]])

joined_rows(left, right, keys) ==
    Flatten(Tuple([k \in 1..Len(keys) |->
        rows_of_key(keys[k], cells_of(left, rows_at(left, keys[k])),
                    cells_of(right, rows_at(right, keys[k])))]))

joined_frame(left, right, joined) ==
    [kind |-> "frame",
     index_names |-> left.index_names,
     columns |-> left.columns \o right.columns,
     index |-> Tuple([n \in 1..Len(joined) |-> joined[n].key]),
     data |-> Tuple([n \in 1..Len(joined) |-> joined[n].cells])]

\* the join with how="left": the keys of the left frame only
outer_join_left(left, right) ==
    joined_frame(left, right, joined_rows(left, right, sorted_keys(Range(left.index))))

\* left.join(right, how="outer", sort=True), for frames with the same index names
outer_join(left, right) ==
    joined_frame(left, right,
                 joined_rows(left, right, sorted_keys(Range(left.index) \cup Range(right.index))))

\* df.join(other, how='outer', sort=True) as a call that may raise
join(df, other) ==
    IF df = None THEN Raised("AttributeError")
    ELSE IF other = None THEN Raised("TypeError")
    ELSE IF Range(df.columns) \cap Range(other.columns) /= {} THEN Raised("ValueError")
    ELSE Returned(outer_join(df, other))

\* for i in range(1, len(dfs)): df = df.join(dfs[i], how='outer', sort=True)
RECURSIVE join_rest(_, _)
join_next(joined, rest) == IF joined.ok THEN join_rest(joined.value, rest) ELSE joined
join_rest(df, rest) ==
    IF rest = <<>> THEN Returned(df) ELSE join_next(join(df, Head(rest)), Tail(rest))

\* df = dfs[0]; then the loop of joins
merge(dfs) ==
    IF dfs = <<>> THEN Raised("IndexError") ELSE join_rest(dfs[1], Tail(dfs))

----------------------------------------------------------------------------
(* The sensor API's payloads, as _load_to_dataframe reads them *)

VarNames == <<"temp", "salt", "pres", "wind", "cond">>
VarUnits == <<"degC", "PSU", "dbar", "None", "S/m">>

\* the value the service reports for a device at a time, and a fixed depth
value_at(dev, t) == 10 * dev + t
z_at(t) == 5

\* a variable of self.metadata["variables_details"]
variable(name, deviceId, pgid) ==
    [name |-> name, deviceId |-> deviceId, parameterGroupId |-> pgid]

\* One element of data_raw["data"]["groupedFeeds"]: value series for devs, flag
\* series for qcdevs, one row per time; flags[r][k] is row r's k-th flag.
\* Row layout: time, (z), the values, the flags.
make_feed(devs, qcdevs, times, hasZ, hasLon, isBinned, flags) ==
    LET nidx == IF hasZ THEN 2 ELSE 1
        val_descs == Tuple([k \in 1..Len(devs) |->
                        [index |-> nidx + k - 1, deviceId |-> devs[k], units |-> VarUnits[devs[k]]]])
        qc_descs == Tuple([k \in 1..Len(qcdevs) |->
                        [index |-> nidx + Len(devs) + k - 1, deviceId |-> qcdevs[k]]])
    IN  [metadata |->
            [time |-> [index |-> 0, label |-> "time", units |-> "None"],
             z |-> IF hasZ THEN [index |-> 1, label |-> "depth", units |-> "m"] ELSE None,
             lon |-> IF hasLon THEN [index |-> 0, label |-> "lon", units |-> "None"] ELSE None,
             lat |-> None,
             values |-> IF isBinned THEN <<>> ELSE val_descs,
             avgVals |-> IF isBinned THEN val_descs ELSE <<>>,
             qcAgg |-> qc_descs],
         data |-> Tuple([r \in 1..Len(times) |->
                    <<times[r]>> \o (IF hasZ THEN <<z_at(times[r])>> ELSE <<>>)
                    \o Tuple([k \in 1..Len(devs) |-> value_at(devs[k], times[r])])
                    \o Tuple([k \in 1..Len(qcdevs) |-> flags[r][k]])])]

\* the station the parser specification parses for
ParseStation == <<variable("temp", 1, 1), variable("salt", 2, 1)>>

\* that station, and stations in which a device of the feeds belongs to no
\* variable or to two
ParseStations ==
    {ParseStation,
     <<variable("temp", 1, 1)>>,
     <<variable("temp", 1, 1), variable("salt", 2, 1), variable("pres", 1, 1)>>}

\* qartod as the caller may pass it: a bool, a flag code, a list of flag codes
Qartods ==
    {[type |-> "bool", b |-> x] : x \in BOOLEAN}
    \cup {[type |-> "int", i |-> x] : x \in FlagCodes}
    \cup {[type |-> "list", l |-> x] : x \in Arrangements(FlagCodes, MaxAccept)}

\* use_units, binned, z present, lon present: the defaults, and each one flipped
ParseModes ==
    {<<TRUE, FALSE, FALSE, FALSE>>, <<FALSE, FALSE, FALSE, FALSE>>,
     <<TRUE, TRUE, FALSE, FALSE>>, <<TRUE, FALSE, TRUE, FALSE>>,
     <<TRUE, FALSE, FALSE, TRUE>>}

ParseFeeds(isBinned, hasZ, hasLon) ==
    {make_feed(dq[1], dq[2], Tuple([r \in 1..n |-> r]), hasZ, hasLon, isBinned, fl) :
        dq \in {<<<<1>>, <<>>>>, <<<<1>>, <<1>>>>, <<<<1, 2>>, <<>>>>,
                <<<<1, 2>>, <<1>>>>, <<<<1, 2>>, <<2>>>>, <<<<1, 2>>, <<1, 2>>>>},
        n \in 1..MaxRows,
        fl \in [1..MaxRows -> [1..2 -> FlagCodes]]}

----------------------------------------------------------------------------
(* The parser specification: one feed, parsed once *)

NoCall == [ok |-> TRUE, value |-> None]
NoArgs == [none |-> TRUE]

InitParse ==
    /\ alive = "yes"
    /\ internal_id = "1001"
    /\ dataset_id = "uuid-a"
    /\ qartod \in Qartods
    /\ \E m \in ParseModes :
        /\ use_units = m[1]
        /\ binned = m[2]
        /\ feed \in ParseFeeds(m[2], m[3], m[4])
    /\ metadata \in {[version |-> 2, variables_details |-> st] : st \in ParseStations}
    /\ _dataframe = None
    /\ _schema = None
    /\ op = "none"
    /\ args = NoArgs
    /\ ret = NoCall
    /\ log = <<>>
    /\ loads = 0
    /\ requested = FALSE

\* the loop body of _load_to_dataframe applied to the feed
ParseFeed ==
    /\ op = "none"
    /\ op' = "parse"
    /\ ret' = feed_to_df(feed, metadata.variables_details, qartod, use_units, binned)
    /\ UNCHANGED <<alive, internal_id, dataset_id, qartod, use_units, binned, metadata,
                   _dataframe, _schema, args, log, loads, requested, feed>>

NextParse == ParseFeed

SpecParse == InitParse /\ [][NextParse]_vars

----------------------------------------------------------------------------
(* utils.make_filter and AXDSSensorSource._get_filters *)

\* make_filter(internal_id, pgid) and make_filter(internal_id): opaque descriptors
make_filter(iid, pgid) == [stations |-> iid, parameterGroupId |-> pgid]
make_filter_station(iid) == [stations |-> iid]

\* list(xs) in place of list(set(xs)): the elements as they come, repeats kept
list_of_set_nodedup(xs) == {xs}

\* list(set(xs)): the distinct elements, in the iteration order of the set,
\* which the language leaves to the implementation
list_of_set(xs) == {o \in [1..Cardinality(Range(xs)) -> Range(xs)] : Range(o) = Range(xs)}

\* the lists _get_filters may return
_get_filters(md, iid) ==
    IF md.version = 1
    THEN LET pgids == Tuple([k \in 1..Len(md.variables_details) |->
                          md.variables_details[k].parameterGroupId])
         IN  {Tuple([k \in 1..Len(o) |-> make_filter(iid, o[k])]) : o \in list_of_set(pgids)}
    ELSE {<<make_filter_station(iid)>>}

----------------------------------------------------------------------------
(* AXDSSensorSource._load_to_dataframe and _load *)

GetSearchDocs == [ev |-> "GET", url |-> "search_docs"]
GetMetadata == [ev |-> "GET", url |-> "metadata"]
\* a data fetch, and what it answered: "error", "empty" (no feed group), "feeds"
GetData(filter, answer) == [ev |-> "GET", url |-> "data", filter |-> filter, answer |-> answer]
answer_of(resp) ==
    IF ~resp.ok THEN "error" ELSE IF Len(resp.groupedFeeds) = 0 THEN "empty" ELSE "feeds"
PdbTrap == [ev |-> "pdb.set_trace"]

\* self.metadata.update(load_metadata("sensor_station", result))
update_metadata(md, station) ==
    [dataset_id |-> md.dataset_id, version |-> station.version,
     variables_details |-> station.variables_details]

\* lines 161-255 on the results of the loop body: the first exception, or the merge
merge_parsed(parsed) ==
    IF \E k \in 1..Len(parsed) : ~parsed[k].ok
    THEN parsed[CHOOSE k \in 1..Len(parsed) :
                    ~parsed[k].ok /\ \A j \in 1..(k - 1) : parsed[j].ok]
    ELSE merge(Tuple([k \in 1..Len(parsed) |-> parsed[k].value]))

\* _load_to_dataframe on the response of its fetch. A response without feed
\* groups enters the debugger, and resp.debugger is what the debugger then
\* does: "continue" resumes the call, "quit" raises BdbQuit.
\* Returns the call's result and whether the debugger was entered.
_load_to_dataframe(self, resp) ==
    IF ~resp.ok THEN [res |-> Raised("HTTPError"), trapped |-> FALSE]
    ELSE IF Len(resp.groupedFeeds) = 0
    THEN [res |-> IF resp.debugger = "quit" THEN Raised("BdbQuit") ELSE Returned(None),
          trapped |-> TRUE]
    ELSE [res |-> merge_parsed(Tuple([k \in 1..Len(resp.groupedFeeds) |->
                      feed_to_df(resp.groupedFeeds[k], self.metadata.variables_details,
                                 self.qartod, self.use_units, self.binned)])),
          trapped |-> FALSE]

\* the log after the fetch for a filter, and the debugger trap it led to
log_fetch(log_, filter, resp, trapped) ==
    log_ \o <<GetData(filter, answer_of(resp))>> \o (IF trapped THEN <<PdbTrap>> ELSE <<>>)

\* for filter in filters: dfs.append(self._load_to_dataframe(...))
\* acc: the dfs and the log so far; r: what _load_to_dataframe did for filters[0]
RECURSIVE load_filters(_, _, _, _)
load_next(self, filters, resps, acc, r) ==
    IF r.res.ok
    THEN load_filters(self, Tail(filters), Tail(resps),
                      [dfs |-> Append(acc.dfs, r.res.value),
                       log |-> log_fetch(acc.log, Head(filters), Head(resps), r.trapped)])
    ELSE [ok |-> FALSE, err |-> r.res.err,
          log |-> log_fetch(acc.log, Head(filters), Head(resps), r.trapped)]
load_filters(self, filters, resps, acc) ==
    IF filters = <<>> THEN [ok |-> TRUE, dfs |-> acc.dfs, log |-> acc.log]
    ELSE load_next(self, filters, resps, acc, _load_to_dataframe(self, Head(resps)))

\* lines 274-280: self._dataframe = df, unless the merge raised
load_assign(self, log_, merged) ==
    IF ~merged.ok
    THEN [ok |-> FALSE, err |-> merged.err, metadata |-> self.metadata,
          _dataframe |-> self._dataframe, log |-> log_]
    ELSE [ok |-> TRUE, metadata |-> self.metadata,
          _dataframe |-> merged.value, log |-> log_]

\* lines 269-280 on what the loop over the filters did
load_merge(self, fetched) ==
    IF ~fetched.ok
    THEN [ok |-> FALSE, err |-> fetched.err, metadata |-> self.metadata,
          _dataframe |-> self._dataframe, log |-> fetched.log]
    ELSE load_assign(self, fetched.log, merge(fetched.dfs))

\* the load with the loop over the filters left after its first pass
load_data_first(self, filters, resps) ==
    load_merge(self, load_filters(self, IF filters = <<>> THEN <<>> ELSE <<Head(filters)>>,
                                  IF filters = <<>> THEN <<>> ELSE <<Head(resps)>>,
                                  [dfs |-> <<>>, log |-> <<GetSearchDocs>>]))

\* lines 267-280 on the object with its metadata updated
load_data(self, filters, resps) ==
    load_merge(self, load_filters(self, filters, resps, [dfs |-> <<>>, log |-> <<GetSearchDocs>>]))

\* One run of _load on the object self: docs is the search-docs response,
\* filters the list _get_filters returned, resps the data responses in fetch
\* order. Returns whether it returned, and the object's fields and the log
\* after it.
_load(self, docs, filters, resps) ==
    IF ~docs.ok
    THEN [ok |-> FALSE, err |-> "HTTPError", metadata |-> self.metadata,
          _dataframe |-> self._dataframe, log |-> <<GetSearchDocs>>]
    ELSE load_data([self EXCEPT !.metadata = update_metadata(self.metadata, docs.station)],
                   filters, resps)

----------------------------------------------------------------------------
(* The remote service, as far as the source object can tell *)

\* the search-docs responses for the object's station
Stations ==
    {[version |-> 2, variables_details |-> <<variable("temp", 1, 1), variable("salt", 2, 2)>>],
     [version |-> 1, variables_details |-> <<variable("temp", 1, 2), variable("salt", 2, 1)>>],
     [version |-> 1, variables_details |-> <<variable("temp", 1, 1), variable("salt", 2, 1)>>],
     [version |-> 1, variables_details |-> <<>>]}

DocsResponses == {[ok |-> FALSE]} \cup {[ok |-> TRUE, station |-> st] : st \in Stations}

\* the flag the service reports for a device at a time
flag_at(dev, t) == <<1, 3, 4>>[((dev + t) % 3) + 1]

\* the devices a filter asks for
devices_of(filter, md) ==
    LET vs == IF md.version = 1
              THEN SelectSeq(md.variables_details,
                             LAMBDA v : v.parameterGroupId = filter.parameterGroupId)
              ELSE md.variables_details
    IN  Tuple([k \in 1..Len(vs) |-> vs[k].deviceId])

service_feed(devs, times, hasLon, isBinned) ==
    make_feed(devs, devs, times, FALSE, hasLon, isBinned,
              Tuple([r \in 1..Len(times) |-> Tuple([k \in 1..Len(devs) |-> flag_at(devs[k], times[r])])]))

\* what a data fetch for a filter can answer: a failure, no feed group (and
\* what the debugger then does), one feed with all the series, one feed per
\* series, a feed carrying a longitude after a good one
DataResponses(filter, md, isBinned) ==
    LET devs == devices_of(filter, md)
        whole == service_feed(devs, <<1, 2>>, FALSE, isBinned)
        each == Tuple([k \in 1..Len(devs) |->
                    service_feed(<<devs[k]>>, <<devs[k], devs[k] + 1>>, FALSE, isBinned)])
        withLon == service_feed(devs, <<1, 2>>, TRUE, isBinned)
    IN  {[ok |-> FALSE]}
        \cup {[ok |-> TRUE, groupedFeeds |-> <<>>, debugger |-> d] : d \in {"continue", "quit"}}
        \cup {[ok |-> TRUE, groupedFeeds |-> g] : g \in {<<whole>>, each, <<whole, withLon>>}}

\* the lists of filters and of data responses a run of _load can meet
filters_for(docs, iid) == IF docs.ok THEN _get_filters(docs.station, iid) ELSE {<<>>}
responses_for(docs, filters, isBinned) ==
    {rs \in [1..Len(filters) ->
                UNION {DataResponses(filters[k], docs.station, isBinned) : k \in 1..Len(filters)}] :
        \A k \in 1..Len(filters) : rs[k] \in DataResponses(filters[k], docs.station, isBinned)}

\* the runs of _load possible on the object self
LoadRuns(self) ==
    UNION {UNION {{_load(self, docs, filters, resps) :
                        resps \in responses_for(docs, filters, self.binned)} :
                    filters \in filters_for(docs, self.internal_id)} :
            docs \in DocsResponses}

----------------------------------------------------------------------------
(* The objects a load can start from, and the runs of _load on each *)

InternalIds == {"None", "1001"}
DatasetIds == {"None", "uuid-a"}
BinIntervals == {"None", "hourly"}

\* qartod as the callers of the source pass it
SourceQartods ==
    {[type |-> "bool", b |-> FALSE], [type |-> "bool", b |-> TRUE],
     [type |-> "int", i |-> 1], [type |-> "list", l |-> <<1, 3>>]}

\* self.metadata after __init__
InitialMetadata == [dataset_id |-> "uuid-a"]

\* the constructed objects that hold no table
UnloadedSources ==
    {[internal_id |-> "1001", dataset_id |-> "uuid-a", qartod |-> q, use_units |-> TRUE,
      binned |-> b, metadata |-> m, _dataframe |-> None] :
        q \in SourceQartods, b \in BOOLEAN,
        m \in {InitialMetadata} \cup {update_metadata(InitialMetadata, st) : st \in Stations}}

LoadRunsOf == [self \in UnloadedSources |-> LoadRuns(self)]

----------------------------------------------------------------------------
(* AXDSSensorSource._get_schema, _get_partition, read, _close *)

\* df.dtypes: a column holding a missing value is no longer an integer column
dtypes(df) ==
    Tuple([c \in 1..Len(df.columns) |->
        [name |-> df.columns[c],
         dtype |-> IF \E r \in 1..Len(df.data) : df.data[r][c] = NA
                   THEN "object" ELSE "int64"]])

\* the schema with the two extents of shape exchanged
Schema_swapped(df) ==
    [kind |-> "Schema", dtype |-> dtypes(df),
     shape |-> <<Len(df.columns), Len(df.data)>>, npartitions |-> 1]

\* base.Schema(datashape=None, dtype=..., shape=..., npartitions=1, extra_metadata={})
Schema(df) ==
    [kind |-> "Schema", dtype |-> dtypes(df),
     shape |-> <<Len(df.data), Len(df.columns)>>, npartitions |-> 1]

\* the object in the current state
self_now ==
    [internal_id |-> internal_id, dataset_id |-> dataset_id, qartod |-> qartod,
     use_units |-> use_units, binned |-> binned, metadata |-> metadata,
     _dataframe |-> _dataframe]

\* The runs of _get_schema possible in the current state: the result, the
\* object's fields and the log after it, and the number of _load calls made.
_get_schema ==
    IF _dataframe = None
    THEN {[res |-> IF ~run.ok THEN Raised(run.err)
                   \* self._dataframe.dtypes on None
                   ELSE IF run._dataframe = None THEN Raised("AttributeError")
                   ELSE Returned(Schema(run._dataframe)),
           metadata |-> run.metadata, _dataframe |-> run._dataframe,
           log |-> run.log, loads |-> 1] : run \in LoadRunsOf[self_now]}
    ELSE {[res |-> Returned(Schema(_dataframe)), metadata |-> metadata,
           _dataframe |-> _dataframe, log |-> <<>>, loads |-> 0]}

\* The runs of self._load_metadata() (intake.source.base.DataSource) possible in
\* the current state: _get_schema is called only while self._schema is None,
\* and its result is kept in self._schema.
_load_metadata ==
    IF _schema = None
    THEN {[res |-> g.res, _schema |-> IF g.res.ok THEN g.res.value ELSE _schema,
           metadata |-> g.metadata, _dataframe |-> g._dataframe,
           log |-> g.log, loads |-> g.loads] : g \in _get_schema}
    ELSE {[res |-> Returned(None), _schema |-> _schema, metadata |-> metadata,
           _dataframe |-> _dataframe, log |-> <<>>, loads |-> 0]}

\* _get_partition returning self._dataframe without the call of _load_metadata
_get_partition_noload ==
    {[res |-> Returned(_dataframe), _schema |-> _schema, metadata |-> metadata,
      _dataframe |-> _dataframe, log |-> <<>>, loads |-> 0]}

\* The runs of _get_partition possible in the current state.
_get_partition ==
    IF _dataframe = None
    THEN {[res |-> IF m.res.ok THEN Returned(m._dataframe) ELSE m.res,
           _schema |-> m._schema, metadata |-> m.metadata, _dataframe |-> m._dataframe,
           log |-> m.log, loads |-> m.loads] : m \in _load_metadata}
    ELSE {[res |-> Returned(_dataframe), _schema |-> _schema, metadata |-> metadata,
           _dataframe |-> _dataframe, log |-> <<>>, loads |-> 0]}

----------------------------------------------------------------------------
(* The source object: construction and the calls made on it *)

Init ==
    /\ alive = "no"
    /\ internal_id = "None"
    /\ dataset_id = "None"
    /\ qartod = [type |-> "bool", b |-> FALSE]
    /\ use_units = TRUE
    /\ binned = FALSE
    /\ metadata = None
    /\ _dataframe = None
    /\ _schema = None
    /\ op = "none"
    /\ args = NoArgs
    /\ ret = NoCall
    /\ log = <<>>
    /\ loads = 0
    /\ requested = FALSE
    /\ feed = None

\* the lookups with "if self.internal_id is None ... else ..." in place of the
\* two tests: the dataset id is looked up even when it was given
lookups_always(iid, did) ==
    IF iid = "None" THEN <<GetSearchDocs>> ELSE <<GetMetadata>>

\* lines 90-96: the requests __init__ makes to resolve the identifier it lacks
lookups(iid, did) ==
    IF did = "None" THEN <<GetMetadata>>
    ELSE IF iid = "None" THEN <<GetSearchDocs>>
    ELSE <<>>

\* AXDSSensorSource(internal_id, dataset_id, qartod=..., bin_interval=...);
\* found tells whether the lookup of the missing identifier answers
Construct ==
    /\ alive = "no"
    /\ \E iid \in InternalIds, did \in DatasetIds, q \in SourceQartods,
          bin_interval \in BinIntervals, found \in BOOLEAN :
        /\ op' = "__init__"
        /\ args' = [internal_id |-> iid, dataset_id |-> did]
        /\ loads' = 0
        /\ UNCHANGED <<_dataframe, _schema, requested, feed, use_units>>
        /\ IF iid = "None" /\ did = "None"
           THEN /\ alive' = "failed"
                /\ ret' = Raised("ValueError")
                /\ log' = <<>>
                /\ UNCHANGED <<internal_id, dataset_id, qartod, binned, metadata>>
           ELSE /\ log' = lookups(iid, did)
                /\ qartod' = q
                /\ binned' = (bin_interval /= "None")
                /\ IF lookups(iid, did) /= <<>> /\ ~found
                   THEN /\ alive' = "failed"
                        /\ ret' = Raised("HTTPError")
                        /\ internal_id' = iid
                        /\ dataset_id' = did
                        /\ UNCHANGED metadata
                   ELSE /\ alive' = "yes"
                        /\ ret' = NoCall
                        /\ internal_id' = "1001"
                        /\ dataset_id' = "uuid-a"
                        /\ metadata' = InitialMetadata

\* source._get_schema()
GetSchema ==
    /\ alive = "yes"
    /\ \E g \in _get_schema :
        /\ op' = "_get_schema"
        /\ args' = NoArgs
        /\ ret' = g.res
        /\ log' = g.log
        /\ loads' = g.loads
        /\ metadata' = g.metadata
        /\ _dataframe' = g._dataframe
    /\ requested' = TRUE
    /\ UNCHANGED <<alive, internal_id, dataset_id, qartod, use_units, binned, _schema, feed>>

\* source.read()
Read ==
    /\ alive = "yes"
    /\ \E p \in _get_partition :
        /\ op' = "read"
        /\ args' = NoArgs
        /\ ret' = p.res
        /\ log' = p.log
        /\ loads' = p.loads
        /\ metadata' = p.metadata
        /\ _dataframe' = p._dataframe
        /\ _schema' = p._schema
    /\ requested' = TRUE
    /\ UNCHANGED <<alive, internal_id, dataset_id, qartod, use_units, binned, feed>>

\* source.close(), which calls _close
Close ==
    /\ alive = "yes"
    /\ op' = "close"
    /\ args' = NoArgs
    /\ ret' = NoCall
    /\ log' = <<>>
    /\ loads' = 0
    /\ _dataframe' = None
    /\ UNCHANGED <<alive, internal_id, dataset_id, qartod, use_units, binned, metadata,
                   _schema, requested, feed>>

Next == Construct \/ GetSchema \/ Read \/ Close

Spec == Init /\ [][Next]_vars

----------------------------------------------------------------------------
(* The filter specification: _get_filters on a station's metadata *)

\* the stations with up to MaxVars variables in parameter groups 1..MaxPgid
FilterStations ==
    {[dataset_id |-> "uuid-a", version |-> v,
      variables_details |-> Tuple([k \in 1..Len(pg) |-> variable(VarNames[k], k, pg[k])])] :
        v \in {1, 2}, pg \in UNION {[1..n -> 1..MaxPgid] : n \in 0..MaxVars}}

InitFilters ==
    /\ alive = "yes"
    /\ internal_id = "1001"
    /\ dataset_id = "uuid-a"
    /\ qartod = [type |-> "bool", b |-> FALSE]
    /\ use_units = TRUE
    /\ binned = FALSE
    /\ metadata \in FilterStations
    /\ _dataframe = None
    /\ _schema = None
    /\ op = "none"
    /\ args = NoArgs
    /\ ret = NoCall
    /\ log = <<>>
    /\ loads = 0
    /\ requested = FALSE
    /\ feed = None

\* self._get_filters()
GetFilters ==
    /\ op = "none"
    /\ op' = "_get_filters"
    /\ \E filters \in _get_filters(metadata, internal_id) : ret' = Returned(filters)
    /\ UNCHANGED <<alive, internal_id, dataset_id, qartod, use_units, binned, metadata,
                   _dataframe, _schema, args, log, loads, requested, feed>>

NextFilters == GetFilters

SpecFilters == InitFilters /\ [][NextFilters]_vars

----------------------------------------------------------------------------
(* The merge specification: "df = dfs[0]; for i in range(1, len(dfs)): df =
   df.join(dfs[i], how='outer', sort=True)" on a list of parsed tables *)

\* the index values of the generated tables
MergeTimes == {1, 2}

\* the table parsed from the k-th feed (or filter), with the rows at times: one
\* data column, of the k-th variable; rows come as the payload orders them,
\* and a time may repeat
merge_table(k, times) ==
    [kind |-> "frame",
     index_names |-> <<"time">>,
     columns |-> <<VarNames[k]>>,
     index |-> Tuple([r \in 1..Len(times) |-> <<times[r]>>]),
     data |-> Tuple([r \in 1..Len(times) |-> <<value_at(k, r)>>])]

\* the lists of one to MaxTables tables, each of one to MaxRows rows
MergeInputs ==
    {Tuple([k \in 1..Len(ts) |-> merge_table(k, ts[k])]) :
        ts \in UNION {[1..n -> UNION {[1..m -> MergeTimes] : m \in 1..MaxRows}] :
                        n \in 1..MaxTables}}

InitMerge ==
    /\ alive = "yes"
    /\ internal_id = "1001"
    /\ dataset_id = "uuid-a"
    /\ qartod = [type |-> "bool", b |-> FALSE]
    /\ use_units = TRUE
    /\ binned = FALSE
    /\ metadata = InitialMetadata
    /\ _dataframe = None
    /\ _schema = None
    /\ op = "none"
    /\ args = NoArgs
    /\ ret = NoCall
    /\ log = <<>>
    /\ loads = 0
    /\ requested = FALSE
    /\ feed = None

\* lines 248-255 (and 274-278) on the list dfs
Merge ==
    /\ op = "none"
    /\ \E dfs \in MergeInputs :
        /\ op' = "merge"
        /\ args' = [dfs |-> dfs]
        /\ ret' = merge(dfs)
    /\ UNCHANGED <<alive, internal_id, dataset_id, qartod, use_units, binned, metadata,
                   _dataframe, _schema, log, loads, requested, feed>>

NextMerge == Merge

SpecMerge == InitMerge /\ [][NextMerge]_vars

----------------------------------------------------------------------------
(* AXDSCatalog (src/intake_axds/axds_cat.py): construction.
   kwargs_search is [present |-> FALSE] for None, and otherwise its set of keys
   with the two values __init__ reads. *)

GeoKeys == {"min_lon", "max_lon", "min_lat", "max_lat"}
TimeKeys == {"min_time", "max_time"}

Abs(x) == IF x < 0 THEN -x ELSE x

LonValues == {-181, 0, 180, 181}

\* the values of kwargs_search the callers pass
KwargsSearches ==
    {[present |-> FALSE]}
    \cup {[present |-> TRUE, keys |-> ks, min_lon |-> a, max_lon |-> b] :
            ks \in SUBSET (GeoKeys \cup TimeKeys), a \in LonValues, b \in LonValues}

\* "for check in checks": some key of a check is given and not all of them
partial(check, keys) == (check \cap keys /= {}) /\ ~(check \subseteq keys)

\* the search request of AXDSCatalog._load
GetSearch == [ev |-> "GET", url |-> "search"]

\* what the search answers: no "results" key, or the uuids of the results
SearchResponses ==
    {[results |-> FALSE]} \cup {[results |-> TRUE, uuids |-> u] : u \in {<<>>, <<"uuid-a">>, <<"uuid-a", "uuid-b">>}}

\* AXDSCatalog._load on the search response: the entries, named by uuid, each
\* with the driver of the output type; for another datatype than "platform2"
\* no branch binds urlpath and plugin
catalog_load(datatype, outtype, resp) ==
    IF ~resp.results THEN Raised("ValueError: No results")
    ELSE IF resp.uuids /= <<>> /\ ~(datatype = "platform2" /\ outtype \in {"dataframe", "xarray"})
    THEN Raised("UnboundLocalError")
    ELSE Returned({[name |-> resp.uuids[k],
                    driver |-> IF outtype = "dataframe" THEN "CSVSource" ELSE "NetCDFSource"] :
                        k \in 1..Len(resp.uuids)})

\* lines 109-124: pglabel, the metadata, and Catalog.__init__, which loads the
\* catalog; matches is what match_key_to_parameter finds
catalog_finish(datatype, outtype, keys_to_match, matches, kw, loaded) ==
    IF keys_to_match /= "None" /\ matches = <<>> THEN Raised("IndexError")
    ELSE IF ~loaded.ok THEN loaded
    ELSE Returned([kwargs_search |-> kw,
                   pglabel |-> IF keys_to_match /= "None" THEN matches[1] ELSE "None",
                   outtype |-> outtype,
                   _entries |-> loaded.value])

\* lines 91-107: the checks of a kwargs_search that is given
catalog_checks(kw) ==
    IF partial(GeoKeys, kw.keys) \/ partial(TimeKeys, kw.keys) THEN Raised("ValueError")
    ELSE IF "min_lon" \notin kw.keys THEN Raised("KeyError")
    ELSE IF Abs(kw.min_lon) > 180 THEN Raised("ValueError")
    ELSE IF "max_lon" \notin kw.keys THEN Raised("KeyError")
    ELSE IF Abs(kw.max_lon) > 180 THEN Raised("ValueError")
    ELSE Returned(kw)

\* kwargs_search as stored: {} when None was given
catalog_kwargs(kw) == IF kw.present THEN kw ELSE [present |-> TRUE, keys |-> {}, min_lon |-> 0, max_lon |-> 0]

\* AXDSCatalog.__init__: what it raises, or the catalog it leaves
catalog_init(datatype, outtype, keys_to_match, matches, kw, resp) ==
    IF datatype = "module" /\ outtype = "dataframe" THEN Raised("ValueError")
    ELSE IF kw.present /\ ~catalog_checks(kw).ok THEN catalog_checks(kw)
    ELSE catalog_finish(datatype, outtype, keys_to_match, matches, catalog_kwargs(kw),
                        catalog_load(datatype, outtype, resp))

\* whether __init__ reaches the search request
catalog_searches(datatype, outtype, keys_to_match, matches, kw) ==
    /\ ~(datatype = "module" /\ outtype = "dataframe")
    /\ kw.present => catalog_checks(kw).ok
    /\ ~(keys_to_match /= "None" /\ matches = <<>>)

InitCatalog ==
    /\ alive = "no"
    /\ internal_id = "None"
    /\ dataset_id = "None"
    /\ qartod = [type |-> "bool", b |-> FALSE]
    /\ use_units = TRUE
    /\ binned = FALSE
    /\ metadata = None
    /\ _dataframe = None
    /\ _schema = None
    /\ op = "none"
    /\ args = NoArgs
    /\ ret = NoCall
    /\ log = <<>>
    /\ loads = 0
    /\ requested = FALSE
    /\ feed = None

\* AXDSCatalog(datatype=..., outtype=..., keys_to_match=..., kwargs_search=...)
ConstructCatalog ==
    /\ alive = "no"
    /\ \E datatype \in {"platform2", "module"}, outtype \in {"dataframe", "xarray"},
          km \in {<<"None", <<>>>>, <<"temp", <<>>>>, <<"temp", <<"Temperature">>>>},
          kw \in KwargsSearches, resp \in SearchResponses :
        /\ kw.present => (("min_lon" \in kw.keys \/ kw.min_lon = 0)
                          /\ ("max_lon" \in kw.keys \/ kw.max_lon = 0))
        /\ op' = "AXDSCatalog"
        /\ args' = [datatype |-> datatype, outtype |-> outtype, keys_to_match |-> km[1],
                    kwargs_search |-> kw]
        /\ ret' = catalog_init(datatype, outtype, km[1], km[2], kw, resp)
        /\ log' = IF catalog_searches(datatype, outtype, km[1], km[2], kw)
                  THEN <<GetSearch>> ELSE <<>>
        /\ alive' = IF catalog_init(datatype, outtype, km[1], km[2], kw, resp).ok
                    THEN "yes" ELSE "failed"
    /\ UNCHANGED <<internal_id, dataset_id, qartod, use_units, binned, metadata,
                   _dataframe, _schema, loads, requested, feed>>

NextCatalog == ConstructCatalog

SpecCatalog == InitCatalog /\ [][NextCatalog]_vars

----------------------------------------------------------------------------
(* Properties of the parser (SpecParse) *)

\* C1: in quality filter mode with accepted flags S, in the table parsed from a
\* feed, every row whose flag for a variable is not in S has that variable's
\* cell missing, and every row whose flag is in S keeps its original value.
\* (The data columns come first in the table, in the order of the feed's value
\* descriptors.)
C1_FilterKeepsAccepted ==
    (op = "parse" /\ qartod.type = "list" /\ ret.ok) =>
        LET vals == IF binned THEN feed.metadata.avgVals ELSE feed.metadata.values
            qcs == feed.metadata.qcAgg
        IN  \A k \in 1..Len(qcs) : \A j \in 1..Len(vals) :
                qcs[k].deviceId = vals[j].deviceId =>
                    \A r \in 1..Len(feed.data) :
                        ret.value.data[r][j] =
                            IF feed.data[r][qcs[k].index + 1] \in Range(qartod.l)
                            THEN feed.data[r][vals[j].index + 1]
                            ELSE NA

\* C2: with qartod a single integer flag code, parsing does exactly what it
\* does for the one-element list of that code: the values whose flag differs
\* are missing and no flag column is in the table.
C2_IntegerCodeFilters ==
    (op = "parse" /\ qartod.type = "int") =>
        ret = feed_to_df(feed, metadata.variables_details,
                         [type |-> "list", l |-> <<qartod.i>>], use_units, binned)

\* C3: in quality filter mode, whatever the number of flag descriptors of the
\* feed, no flag column "<label>_qc_agg" is in the table parsed from it.
C3_NoFlagColumnInFilterMode ==
    (op = "parse" /\ qartod.type = "list" /\ ret.ok) =>
        \A c \in 1..Len(ret.value.columns) :
            \A v \in 1..Len(metadata.variables_details) :
                ret.value.columns[c] /= metadata.variables_details[v].name \o "_qc_agg"

\* C13: while a feed is parsed, a value descriptor or a flag descriptor whose
\* device is the device of no variable of the station, or of more than one,
\* makes the parse fail with an exception; a parse that returns a table has
\* found exactly one variable for every descriptor it labelled.
C13_AmbiguousLabelFails ==
    (op = "parse" /\ feed.metadata.lon = None /\ feed.metadata.lat = None) =>
        LET descs == (IF binned THEN feed.metadata.avgVals ELSE feed.metadata.values)
                     \o (IF qartod_on(qartod) THEN feed.metadata.qcAgg ELSE <<>>)
        IN  (\E k \in 1..Len(descs) :
                Len(vars_with_device(metadata.variables_details, descs[k].deviceId)) /= 1)
            => ~ret.ok

----------------------------------------------------------------------------
(* Properties of the source object (Spec) *)

\* C4: after close the table is dropped, and the next schema request or read,
\* whichever comes first, runs a load and, when it returns, returns a result
\* that is not None and leaves the table cached.
C4_ReloadAfterClose ==
    [][(alive = "yes" /\ op = "close") =>
            /\ _dataframe = None
            /\ (op' \in {"read", "_get_schema"} =>
                    /\ loads' = 1
                    /\ (ret'.ok => ret'.value /= None /\ _dataframe' /= None))]_vars

\* C5: on a constructed source of which nothing was requested yet, no feed data
\* was fetched and no table is held; the first schema request or read runs
\* exactly one load, which starts with the metadata fetch and, when the request
\* returns, has fetched once for each filter of the station, in order, and has
\* left the assembled table in the source.
C5_FirstRequestLoadsOnce ==
    [][(alive = "yes" /\ ~requested) =>
            /\ _dataframe = None
            /\ \A k \in 1..Len(log) : log[k] \in {GetSearchDocs, GetMetadata}
            /\ (requested' =>
                    /\ loads' = 1
                    /\ log' /= <<>>
                    /\ log'[1] = GetSearchDocs
                    /\ (ret'.ok =>
                            /\ _dataframe' /= None
                            /\ _dataframe'.kind = "frame"
                            /\ Tuple([k \in 1..(Len(log') - 1) |-> log'[k + 1].filter])
                                   \in _get_filters(metadata', internal_id)
                            /\ \A k \in 2..Len(log') : log'[k].answer = "feeds"))]_vars

\* a first request that loaded: the metadata fetch and two data fetches
C5_Witness ==
    /\ op \in {"read", "_get_schema"}
    /\ loads = 1
    /\ ret.ok
    /\ _dataframe /= None
    /\ Len(log) = 3

\* C6: while a table is cached, a schema request or a read fetches nothing and
\* leaves the table as it is; the read returns that table, and the schema
\* request reports its dtypes and its shape with npartitions = 1.
C6_LoadedServesFromCache ==
    [][(alive = "yes" /\ _dataframe /= None /\ op' \in {"read", "_get_schema"}) =>
            /\ log' = <<>>
            /\ loads' = 0
            /\ _dataframe' = _dataframe
            /\ (op' = "read" => ret' = Returned(_dataframe))
            /\ (op' = "_get_schema" =>
                    /\ ret'.ok
                    /\ ret'.value.dtype = dtypes(_dataframe)
                    /\ ret'.value.shape = <<Len(_dataframe.data), Len(_dataframe.columns)>>
                    /\ ret'.value.npartitions = 1)]_vars

\* a schema request answered from the cached table, which has rows and columns
C6_Witness ==
    /\ op = "_get_schema"
    /\ loads = 0
    /\ log = <<>>
    /\ ret.ok
    /\ _dataframe /= None
    /\ ret.value.shape = <<Len(_dataframe.data), Len(_dataframe.columns)>>
    /\ Len(_dataframe.data) > Len(_dataframe.columns)

\* C7: a request whose load fails leaves no table in the source, and the
\* schema request or read that follows it starts a new load with the metadata
\* fetch.
C7_FailedLoadLeavesUnloaded ==
    [][/\ (loads' = 1 /\ ~ret'.ok) => _dataframe' = None
       /\ (alive = "yes" /\ loads = 1 /\ ~ret.ok /\ op' \in {"read", "_get_schema"}) =>
              /\ loads' = 1
              /\ log' /= <<>>
              /\ log'[1] = GetSearchDocs]_vars

\* C8: when a data fetch of a schema request or read answered without feed
\* groups, the debugger is not entered and the request ends in an explicit
\* "no data" outcome, not in another exception and not in an ordinary result.
C8_NoDataIsExplicit ==
    (/\ op \in {"read", "_get_schema"}
     /\ \E k \in 1..Len(log) :
            log[k].ev = "GET" /\ log[k].url = "data" /\ log[k].answer = "empty") =>
        /\ \A k \in 1..Len(log) : log[k] /= PdbTrap
        /\ \/ ~ret.ok /\ ret.err = "NoData"
           \/ ret.ok /\ ret.value.kind = "NoData"

\* C10: construction with neither identifier raises ValueError with no request
\* made; with exactly one identifier it makes exactly one lookup request; with
\* both it makes none.
C10_ConstructLookups ==
    op = "__init__" =>
        /\ (args.internal_id = "None" /\ args.dataset_id = "None") =>
               (alive = "failed" /\ ret = Raised("ValueError") /\ log = <<>>)
        /\ ((args.internal_id = "None") /= (args.dataset_id = "None")) =>
               (Len(log) = 1 /\ log[1] \in {GetMetadata, GetSearchDocs})
        /\ (args.internal_id /= "None" /\ args.dataset_id /= "None") =>
               (alive = "yes" /\ log = <<>>)

\* a construction from the dataset id alone, which looked the internal id up
C10_Witness ==
    /\ op = "__init__"
    /\ args.internal_id = "None"
    /\ args.dataset_id /= "None"
    /\ alive = "yes"
    /\ log = <<GetSearchDocs>>

\* C14: a load that finds a version 1 station without variables makes no data
\* fetch (the filter list is empty) and ends in an explicit "no data" outcome,
\* not in an exception of the selection of the first table.
C14_ZeroFiltersIsNoData ==
    (/\ op \in {"read", "_get_schema"}
     /\ loads = 1
     /\ ~(~ret.ok /\ ret.err = "HTTPError")
     /\ metadata.version = 1
     /\ metadata.variables_details = <<>>) =>
        /\ log = <<GetSearchDocs>>
        /\ \/ ~ret.ok /\ ret.err = "NoData"
           \/ ret.ok /\ ret.value.kind = "NoData"

----------------------------------------------------------------------------
(* Properties of _get_filters (SpecFilters) *)

\* the elements of xs in the order of their first occurrence
RECURSIVE first_seen(_, _)
first_seen(xs, seen) ==
    IF xs = <<>> THEN <<>>
    ELSE IF Head(xs) \in seen THEN first_seen(Tail(xs), seen)
    ELSE <<Head(xs)>> \o first_seen(Tail(xs), seen \cup {Head(xs)})

\* C9 as stated: for a version 1 station, _get_filters returns one filter per
\* distinct parameter-group id, in the order in which the ids are first met
\* among the variables.
C9_FiltersInFirstSeenOrder ==
    (op = "_get_filters" /\ metadata.version = 1) =>
        LET pgids == Tuple([k \in 1..Len(metadata.variables_details) |->
                              metadata.variables_details[k].parameterGroupId])
            ids == first_seen(pgids, {})
        IN  ret.value = Tuple([k \in 1..Len(ids) |-> make_filter(internal_id, ids[k])])

\* C9 as amended: for a version 1 station, _get_filters returns exactly one
\* filter per distinct parameter-group id of the station's variables, each for
\* the source's station; their order is the iteration order of the set of ids.
C9_OneFilterPerDistinctId ==
    (op = "_get_filters" /\ metadata.version = 1) =>
        LET ids == {metadata.variables_details[k].parameterGroupId :
                        k \in 1..Len(metadata.variables_details)}
        IN  /\ Len(ret.value) = Cardinality(ids)
            /\ {ret.value[k].parameterGroupId : k \in 1..Len(ret.value)} = ids
            /\ \A k \in 1..Len(ret.value) : ret.value[k].stations = internal_id

\* three variables in two parameter groups gave two filters
C9_Witness ==
    /\ op = "_get_filters"
    /\ metadata.version = 1
    /\ Len(metadata.variables_details) = 3
    /\ Len(ret.value) = 2

----------------------------------------------------------------------------
(* Properties of the merge (SpecMerge) *)

\* C11: the merge of a list of one table is that table, unchanged; the merge
\* of several tables is a table whose index holds exactly the index values of
\* the inputs, in ascending order (and without repeats when no input repeats
\* one), whose columns are those of the inputs in order, in which every input
\* cell stands in a row of its index value, and in which a cell is missing
\* where its input has no row of that index value.
C11_MergeIsSortedOuterJoin ==
    op = "merge" =>
        /\ ret.ok
        /\ Len(args.dfs) = 1 => ret.value = args.dfs[1]
        /\ Len(args.dfs) > 1 =>
            LET dfs == args.dfs
                out == ret.value
            IN  /\ Range(out.index) = UNION {Range(dfs[k].index) : k \in 1..Len(dfs)}
                /\ \A n \in 1..(Len(out.index) - 1) : ~key_less(out.index[n + 1], out.index[n])
                /\ (\A k \in 1..Len(dfs) : Cardinality(Range(dfs[k].index)) = Len(dfs[k].index))
                       => Cardinality(Range(out.index)) = Len(out.index)
                /\ out.columns = Flatten(Tuple([k \in 1..Len(dfs) |-> dfs[k].columns]))
                /\ Len(out.data) = Len(out.index)
                /\ \A k \in 1..Len(dfs) : \A c \in 1..Len(dfs[k].columns) :
                       LET oc == col_pos(out, dfs[k].columns[c])
                       IN  /\ \A r \in 1..Len(dfs[k].index) :
                                  \E n \in 1..Len(out.index) :
                                      /\ out.index[n] = dfs[k].index[r]
                                      /\ out.data[n][oc] = dfs[k].data[r][c]
                           /\ \A n \in 1..Len(out.index) :
                                  IF \A r \in 1..Len(dfs[k].index) : dfs[k].index[r] /= out.index[n]
                                  THEN out.data[n][oc] = NA
                                  ELSE \E r \in 1..Len(dfs[k].index) :
                                           /\ dfs[k].index[r] = out.index[n]
                                           /\ out.data[n][oc] = dfs[k].data[r][c]

\* three tables merged: the first given out of order, the third alone at time
\* 2, so that the merged table is sorted and has missing cells
C11_Witness ==
    /\ op = "merge"
    /\ Len(args.dfs) = 3
    /\ args.dfs[1].index = <<<<2>>, <<1>>>>
    /\ args.dfs[3].index = <<<<2>>>>
    /\ ret.ok
    /\ ret.value.index = <<<<1>>, <<2>>>>
    /\ ret.value.data[1][3] = NA

----------------------------------------------------------------------------
(* Properties of the catalog's construction (SpecCatalog) *)

\* C12: with keys_to_match unset and datatype "platform2", the construction of
\* an AXDSCatalog raises the configuration error (ValueError) exactly when
\* kwargs_search gives some but not all of the geographic keys, or one of the
\* two time keys, or a min_lon or max_lon beyond 180 in absolute value; with
\* any other kwargs_search (None, or the two time keys alone) it passes the
\* checks and goes on to load the catalog.
C12_CatalogConfigErrors ==
    (op = "AXDSCatalog" /\ args.keys_to_match = "None" /\ args.datatype = "platform2") =>
        LET kw == args.kwargs_search
            bad == /\ kw.present
                   /\ \/ partial(GeoKeys, kw.keys)
                      \/ partial(TimeKeys, kw.keys)
                      \/ "min_lon" \in kw.keys /\ Abs(kw.min_lon) > 180
                      \/ "max_lon" \in kw.keys /\ Abs(kw.max_lon) > 180
        IN  IF bad THEN ret = Raised("ValueError") /\ log = <<>>
            ELSE log = <<GetSearch>> /\ (ret.ok \/ ret.err = "ValueError: No results")

====
